---- MODULE Spec2Model ----
(***************************************************************************)
(* Model of src/python_debugger.py: the PyDebugger session created by      *)
(* debug_function.  actual_function_wrapper installs                       *)
(* _initial_trace_for_this_func_entry with sys.settrace and calls the      *)
(* decorated function; the interpreter hands each call event to the        *)
(* installed trace function and each line, return and exception event to   *)
(* the trace function of the frame it happens in, which is what the call   *)
(* event's handler returned.  When PyDebugger.trace_dispatch decides to     *)
(* stop it enters cmdloop and the operator's commands run until one of     *)
(* them resumes the target.                                                *)
(*                                                                         *)
(* A frame is identified by its position in the host call stack (1 is the  *)
(* outermost frame); f_back of frame k is frame k-1 and the outermost      *)
(* frame has no f_back (NoFrame).                                          *)
(***************************************************************************)
EXTENDS Integers, Sequences, FiniteSets, TLC

VARIABLES
    stack,                  \* host call stack, outermost first:
                            \* [file, lineno, co_name, f_trace]
    trace_func,             \* the trace function sys.settrace last installed
    pc,                     \* "entry" | "running" | "prompt" | "ended" | "crashed"
                            \* | "returned"
    dispatch,               \* the last trace_dispatch call since the last resume
    last_resume,            \* the command that last resumed the target
    last_cmd,               \* the last non-resuming command run at the prompt
    output,                 \* what the last command reported
    state_manager,          \* _StateManager
    breakpoint_manager,     \* _BreakpointManager
    execution_frame,        \* PyDebugger.execution_frame
    interaction_frame,      \* PyDebugger.interaction_frame
    full_stack_at_stop,     \* PyDebugger._full_stack_at_stop
    interaction_stack_idx,  \* PyDebugger._interaction_stack_idx
    watched_expressions,    \* PyDebugger.watched_expressions
    quit_debugger,          \* PyDebugger.quit_debugger
    ignore_set              \* history: per breakpoint id, the budget last set
                            \* by ignore and the evaluations seen since

vars == <<stack, trace_func, pc, dispatch, last_resume, last_cmd, output, state_manager,
          breakpoint_manager, execution_frame, interaction_frame,
          full_stack_at_stop, interaction_stack_idx, watched_expressions,
          quit_debugger, ignore_set>>

session_vars == <<state_manager, breakpoint_manager, execution_frame,
                  interaction_frame, full_stack_at_stop, interaction_stack_idx,
                  watched_expressions>>

----------------------------------------------------------------------------
(* Bounds of the model *)

\* deepest host call stack explored (outer frames included)
MaxDepth == 4
\* breakpoints added in one session, and evaluations of one breakpoint, while
\* stepping (Spec)
MaxStepBp == 1
MaxStepHits == 1
\* the same for the breakpoint registry (SpecBreak)
MaxBp == 2
MaxHits == 1
\* the same where ignore budgets are set (SpecIgnore), with the largest
\* ignore count the operator gives
MaxIgnoreBp == 1
MaxIgnoreHits == 3
MaxIgnore == 2

----------------------------------------------------------------------------
(* Values *)

NoFrame == 0
NoneInfo == <<>>
NoCond == "None"
NoLine == 0
NoFile == "None"

\* The target program: the decorated function f is defined on line 1 of a.py
\* and the function g it calls on line 1 of b.py; either body is lines 2-3.
\* A frame is on its def line at its call event and on a body line from its
\* first line event on.
BodyLines == {2, 3}
\* the frame of the decorated function at its call event, with co_filename
\* as the interpreter gives it (relative here) and no trace function yet
EntryFrame == [file |-> "a.py", lineno |-> 1, co_name |-> "f",
               f_trace |-> "None"]
\* the frames of the functions the target calls, at their call events
CalleeFrames == {[file |-> "/w/b.py", lineno |-> 1, co_name |-> "g",
                  f_trace |-> "None"]}
\* the file the decorator's wrapper lives in
DebuggerFile == "/w/python_debugger.py"
\* the line of actual_function_wrapper that calls the decorated function
WrapperLine == 957
\* frames below the decorated function: the caller and actual_function_wrapper
\* (entered before settrace: they have no trace function)
\* lines 931-944: the wrapper's frame with the function it wraps and its
\* locals original_trace_func, the hook gettrace() gave, and
\* is_already_tracing_with_our_debugger
WrapperFrame(obj_to_debug, original_trace_func, is_already_tracing, f_trace) ==
    [ file |-> DebuggerFile, lineno |-> WrapperLine,
      co_name |-> "actual_function_wrapper", f_trace |-> f_trace,
      obj_to_debug |-> obj_to_debug,
      original_trace_func |-> original_trace_func,
      is_already_tracing_with_our_debugger |-> is_already_tracing ]
\* the hooks the host can have installed before it calls the decorated
\* function: none, or a trace function of its own
HostHooks == {"None", "host_tracer"}
CallerFrame == [file |-> "/w/main.py", lineno |-> 2,
                co_name |-> "<module>", f_trace |-> "None"]
OuterFrames ==
    <<CallerFrame, WrapperFrame(EntryFrame.co_name, "None", FALSE, "None")>>

\* os.path.abspath with /w as the working directory
abspath(name) ==
    CASE name = "a.py" -> "/w/a.py"
      [] name = "b.py" -> "/w/b.py"
      [] name = "missing.py" -> "/w/missing.py"
      [] name = "bad.py" -> "/w/bad.py"
      [] OTHER -> name

Events == {"call", "line", "return", "exception"}
\* what eval() of a breakpoint condition can do
CondOutcomes == {"true", "false", "error"}

Top(stk) == stk[Len(stk)]
Pop(stk) == SubSeq(stk, 1, Len(stk) - 1)

\* frame.f_back
f_back(frm) == IF frm = NoFrame THEN NoFrame ELSE frm - 1

----------------------------------------------------------------------------
(* _StateManager *)

StateManagerInit ==
    [ request_stop_at_next_suitable_event |-> TRUE,
      step_into |-> FALSE,
      step_over |-> FALSE,
      step_over_target_depth |-> -1,
      step_out |-> FALSE,
      step_out_target_depth |-> -1,
      run_until_line_info |-> NoneInfo ]

reset_stepping_flags(sm) ==
    [sm EXCEPT !.step_into = FALSE, !.step_over = FALSE, !.step_out = FALSE]

configure_for_run_requesting_stop(sm) ==
    [reset_stepping_flags(sm) EXCEPT
        !.request_stop_at_next_suitable_event = TRUE,
        !.run_until_line_info = NoneInfo]

configure_for_run(sm) ==
    [reset_stepping_flags(sm) EXCEPT
        !.request_stop_at_next_suitable_event = FALSE,
        !.run_until_line_info = NoneInfo]

configure_for_step_into(sm) ==
    [sm EXCEPT !.request_stop_at_next_suitable_event = TRUE,
               !.step_into = TRUE, !.step_over = FALSE, !.step_out = FALSE,
               !.run_until_line_info = NoneInfo]

configure_for_step_over_keeping_until(sm, depth) ==
    [sm EXCEPT !.request_stop_at_next_suitable_event = TRUE,
               !.step_over = TRUE, !.step_into = FALSE, !.step_out = FALSE,
               !.step_over_target_depth = depth]

configure_for_step_over(sm, depth) ==
    [sm EXCEPT !.request_stop_at_next_suitable_event = TRUE,
               !.step_over = TRUE, !.step_into = FALSE, !.step_out = FALSE,
               !.step_over_target_depth = depth,
               !.run_until_line_info = NoneInfo]

configure_for_step_out(sm, depth) ==
    [sm EXCEPT !.request_stop_at_next_suitable_event = TRUE,
               !.step_out = TRUE, !.step_into = FALSE, !.step_over = FALSE,
               !.step_out_target_depth = depth,
               !.run_until_line_info = NoneInfo]

configure_for_run_until(sm, file, line) ==
    [reset_stepping_flags(sm) EXCEPT
        !.request_stop_at_next_suitable_event = TRUE,
        !.run_until_line_info = <<file, line>>]

----------------------------------------------------------------------------
(* The files the operator can name, and their declaration outlines *)

\* what open()/getmtime()/ast.parse() find for a canonical path
FileState(file_abs) ==
    CASE file_abs = "/w/a.py" -> "ok"
      [] file_abs = "/w/b.py" -> "ok"
      [] file_abs = "/w/bad.py" -> "malformed"
      [] OTHER -> "missing"

Def(name, lineno, body) ==
    [kind |-> "FunctionDef", name |-> name, lineno |-> lineno, body |-> body]
Class(name, lineno, body) ==
    [kind |-> "ClassDef", name |-> name, lineno |-> lineno, body |-> body]

\* ast.parse(source).body reduced to its def/class statements
Outline(file_abs) ==
    IF file_abs = "/w/a.py"
    THEN << Def("f", 1, <<>>),
            Def("b", 4, <<>>),
            Class("A", 5, << Def("b", 6, << Def("c", 7, <<>>) >>),
                             Class("B", 8, << Def("c", 9, <<>>) >>) >>) >>
    ELSE << Def("g", 1, <<>>),
            Def("h", 4, << Def("b", 5, <<>>) >>) >>

IsPrefix(path, parts) ==
    /\ Len(path) <= Len(parts)
    /\ SubSeq(parts, 1, Len(path)) = path

RECURSIVE visit_body(_, _, _, _)
visit_FunctionDef_matching_last_name(node, path, target, parts) ==
    LET current_path == Append(path, node.name)
        t1 == IF node.name = parts[Len(parts)] THEN node.lineno ELSE target
    IN  IF t1 = NoLine
        THEN visit_body(node.body, current_path, t1, parts)
        ELSE t1

\* _FunctionFinder.visit_FunctionDef: the finder's target_lineno after the node
visit_FunctionDef(node, path, target, parts) ==
    LET current_path == Append(path, node.name)
        t1 == IF current_path = parts THEN node.lineno ELSE target
    IN  IF t1 = NoLine /\ Len(current_path) < Len(parts)
           /\ IsPrefix(current_path, parts)
        THEN visit_body(node.body, current_path, t1, parts)
        ELSE t1

\* _FunctionFinder.visit_ClassDef
visit_ClassDef(node, path, target, parts) ==
    LET current_path == Append(path, node.name)
    IN  IF IsPrefix(current_path, parts)
        THEN visit_body(node.body, current_path, target, parts)
        ELSE target

\* NodeVisitor.generic_visit over a statement list, in source order
visit_body(nodes, path, target, parts) ==
    IF nodes = <<>> THEN target
    ELSE LET node == Head(nodes)
             t1 == IF node.kind = "FunctionDef"
                   THEN visit_FunctionDef(node, path, target, parts)
                   ELSE visit_ClassDef(node, path, target, parts)
         IN  visit_body(Tail(nodes), path, t1, parts)

----------------------------------------------------------------------------
(* _BreakpointInfo *)

BreakpointInfo(lineno, file_abs, condition_str, initial_ignore_count) ==
    [ lineno |-> lineno, file_abs |-> file_abs,
      condition_str |-> condition_str,
      initial_ignore_count |-> initial_ignore_count,
      current_ignore_left |-> initial_ignore_count,
      hit_count |-> 0, enabled |-> TRUE ]

should_stop_not_counting_down(bp, outcome) ==
    IF ~bp.enabled
    THEN [bp |-> bp, result |-> FALSE, cond_evaluated |-> FALSE]
    ELSE LET hit == [bp EXCEPT !.hit_count = @ + 1]
         IN  IF hit.current_ignore_left > 0
             THEN [bp |-> hit, result |-> FALSE, cond_evaluated |-> FALSE]
             ELSE IF hit.condition_str # NoCond
             THEN [ bp |-> hit, result |-> (outcome = "true"),
                    cond_evaluated |-> TRUE ]
             ELSE [bp |-> hit, result |-> TRUE, cond_evaluated |-> FALSE]

should_stop_counting_stops(bp, outcome) ==
    IF ~bp.enabled
    THEN [bp |-> bp, result |-> FALSE, cond_evaluated |-> FALSE]
    ELSE IF bp.current_ignore_left > 0
    THEN [ bp |-> [bp EXCEPT !.current_ignore_left = @ - 1],
           result |-> FALSE, cond_evaluated |-> FALSE ]
    ELSE IF bp.condition_str # NoCond /\ outcome # "true"
    THEN [bp |-> bp, result |-> FALSE, cond_evaluated |-> TRUE]
    ELSE [ bp |-> [bp EXCEPT !.hit_count = @ + 1], result |-> TRUE,
           cond_evaluated |-> bp.condition_str # NoCond ]

should_stop_on_failing_condition(bp, outcome) ==
    IF ~bp.enabled
    THEN [bp |-> bp, result |-> FALSE, cond_evaluated |-> FALSE]
    ELSE LET hit == [bp EXCEPT !.hit_count = @ + 1]
         IN  IF hit.current_ignore_left > 0
             THEN [ bp |-> [hit EXCEPT !.current_ignore_left = @ - 1],
                    result |-> FALSE, cond_evaluated |-> FALSE ]
             ELSE IF hit.condition_str # NoCond
             THEN [ bp |-> hit, result |-> (outcome # "false"),
                    cond_evaluated |-> TRUE ]
             ELSE [bp |-> hit, result |-> TRUE, cond_evaluated |-> FALSE]

\* _BreakpointInfo.should_stop; outcome is what eval() of the condition does
should_stop(bp, outcome) ==
    IF ~bp.enabled
    THEN [bp |-> bp, result |-> FALSE, cond_evaluated |-> FALSE]
    ELSE LET hit == [bp EXCEPT !.hit_count = @ + 1]
         IN  IF hit.current_ignore_left > 0
             THEN [ bp |-> [hit EXCEPT !.current_ignore_left = @ - 1],
                    result |-> FALSE, cond_evaluated |-> FALSE ]
             ELSE IF hit.condition_str # NoCond
             THEN [ bp |-> hit, result |-> (outcome = "true"),
                    cond_evaluated |-> TRUE ]
             ELSE [bp |-> hit, result |-> TRUE, cond_evaluated |-> FALSE]

----------------------------------------------------------------------------
(* _BreakpointManager.  A _BreakpointInfo object is identified by the id it  *)
(* was created under: breakpoints_by_file maps <<file, line>> to that id and *)
(* breakpoints_by_id maps the id to the object's fields.                     *)

EmptyMap == [x \in {} |-> 0]

BreakpointManagerInit ==
    [ breakpoints_by_file |-> EmptyMap,
      ast_cache |-> {},
      next_bp_id |-> 1,
      breakpoints_by_id |-> EmptyMap ]

Without(f, k) == [x \in (DOMAIN f) \ {k} |-> f[x]]

\* _load_ast_with_cache: the manager afterwards and whether a tree came back
load_ast_with_cache(bm, filename_abs) ==
    IF FileState(filename_abs) = "missing"
    THEN [bm |-> bm, tree |-> FALSE]
    ELSE IF filename_abs \in bm.ast_cache
    THEN [bm |-> bm, tree |-> TRUE]
    ELSE IF FileState(filename_abs) = "malformed"
    THEN [bm |-> bm, tree |-> FALSE]
    ELSE [ bm |-> [bm EXCEPT !.ast_cache = @ \cup {filename_abs}],
           tree |-> TRUE ]

\* _find_func_lineno_using_ast: line 132 names _FunctionFinder, which is not
\* in scope in the method, and evaluates it exactly when no tree came back
find_func_lineno_using_ast(bm, filename_abs, func_spec) ==
    LET loaded == load_ast_with_cache(bm, filename_abs)
    IN  IF ~loaded.tree
        THEN [bm |-> loaded.bm, lineno |-> NoLine, raised |-> "NameError"]
        ELSE [ bm |-> loaded.bm,
               lineno |-> visit_body(Outline(filename_abs), <<>>, NoLine,
                                     func_spec),
               raised |-> "" ]

\* A location string "[file:]spec" as the text splits at its last colon:
\* file_part is NoFile when there is no colon, and spec is a line number
\* (kind "int") or a dotted name (kind "name").
Loc(file_part, kind, line, name) ==
    [file_part |-> file_part, kind |-> kind, line |-> line, name |-> name]

parse_location_string(bm, loc, current_file_for_context) ==
    LET file_part_str == IF loc.file_part # NoFile THEN loc.file_part
                         ELSE current_file_for_context
        abs_file_path == abspath(file_part_str)
    IN  IF loc.kind = "int"
        THEN [ bm |-> bm, file_abs |-> abs_file_path, lineno |-> loc.line,
               raised |-> "" ]
        ELSE LET found == find_func_lineno_using_ast(bm, abs_file_path,
                                                     loc.name)
             IN  IF found.raised # ""
                 THEN [ bm |-> found.bm, file_abs |-> NoFile,
                        lineno |-> NoLine, raised |-> found.raised ]
                 ELSE IF found.lineno # NoLine
                 THEN [ bm |-> found.bm, file_abs |-> abs_file_path,
                        lineno |-> found.lineno, raised |-> "" ]
                 ELSE [ bm |-> found.bm, file_abs |-> NoFile,
                        lineno |-> NoLine, raised |-> "" ]

add_breakpoint(bm, file_abs, lineno, condition_str, initial_ignore_count) ==
    LET bp_id == bm.next_bp_id
        bp_info == BreakpointInfo(lineno, file_abs, condition_str,
                                  initial_ignore_count)
    IN  [ bm |-> [bm EXCEPT
                    !.breakpoints_by_file = (<<file_abs, lineno>> :> bp_id) @@ @,
                    !.next_bp_id = @ + 1,
                    !.breakpoints_by_id = (bp_id :> bp_info) @@ @],
          bp_id |-> bp_id ]

\* the second half of clear_breakpoint: pop the id, then delete the location
\* entry of the popped object (KeyError when that entry is gone)
remove_by_id(bm, bp_to_remove_id) ==
    IF bp_to_remove_id # 0 /\ bp_to_remove_id \in DOMAIN bm.breakpoints_by_id
    THEN LET bp_info == bm.breakpoints_by_id[bp_to_remove_id]
             key == <<bp_info.file_abs, bp_info.lineno>>
             popped == [bm EXCEPT !.breakpoints_by_id =
                                      Without(@, bp_to_remove_id)]
         IN  IF key \in DOMAIN bm.breakpoints_by_file
             THEN [ bm |-> [popped EXCEPT !.breakpoints_by_file =
                                              Without(@, key)],
                    ret |-> TRUE, raised |-> "" ]
             ELSE [bm |-> popped, ret |-> FALSE, raised |-> "KeyError"]
    ELSE [bm |-> bm, ret |-> FALSE, raised |-> ""]

\* clear_breakpoint(bp_id, None) with an integer argument
clear_breakpoint_id(bm, bp_id) ==
    IF bp_id = 0
    THEN \* "not bp_to_remove_id" holds for 0: parse_location_string(0, None)
         [bm |-> bm, ret |-> FALSE, raised |-> "TypeError"]
    ELSE remove_by_id(bm, bp_id)

\* clear_breakpoint(loc_str, current_file_for_context) with a string argument
clear_breakpoint_loc(bm, loc, current_file_for_context) ==
    LET parsed == parse_location_string(bm, loc, current_file_for_context)
        key == <<parsed.file_abs, parsed.lineno>>
    IN  IF parsed.raised # ""
        THEN [bm |-> parsed.bm, ret |-> FALSE, raised |-> parsed.raised]
        ELSE IF /\ parsed.file_abs # NoFile
                /\ parsed.lineno # 0
                /\ key \in DOMAIN parsed.bm.breakpoints_by_file
        THEN \* the id whose object is the one mapped at the location
             remove_by_id(parsed.bm, parsed.bm.breakpoints_by_file[key])
        ELSE [bm |-> parsed.bm, ret |-> FALSE, raised |-> ""]

clear_all_breakpoints_restarting_ids(bm) ==
    [bm EXCEPT !.breakpoints_by_file = EmptyMap,
               !.breakpoints_by_id = EmptyMap,
               !.next_bp_id = 1]

clear_all_breakpoints(bm) ==
    [bm EXCEPT !.breakpoints_by_file = EmptyMap,
               !.breakpoints_by_id = EmptyMap]

\* check_breakpoint: the manager afterwards and whether a breakpoint stops
check_breakpoint(bm, file_abs, lineno, outcome) ==
    LET key == <<file_abs, lineno>>
    IN  IF key \in DOMAIN bm.breakpoints_by_file
        THEN LET id == bm.breakpoints_by_file[key]
                 r == should_stop(bm.breakpoints_by_id[id], outcome)
             IN  [ bm |-> [bm EXCEPT !.breakpoints_by_id[id] = r.bp],
                   hit |-> r.result, bp_id |-> id, looked_up |-> TRUE,
                   cond_evaluated |-> r.cond_evaluated ]
        ELSE [ bm |-> bm, hit |-> FALSE, bp_id |-> 0, looked_up |-> FALSE,
               cond_evaluated |-> FALSE ]

set_ignore_count(bm, bp_id, count) ==
    IF bp_id \in DOMAIN bm.breakpoints_by_id
    THEN [ bm |-> [bm EXCEPT
                     !.breakpoints_by_id[bp_id].initial_ignore_count = count,
                     !.breakpoints_by_id[bp_id].current_ignore_left = count],
           ret |-> TRUE ]
    ELSE [bm |-> bm, ret |-> FALSE]

\* list_breakpoints: the ids printed, in sorted order, as a set
list_breakpoints(bm) == DOMAIN bm.breakpoints_by_id

----------------------------------------------------------------------------
(* PyDebugger: frames and the stack snapshot *)

FrameFile(stk, frm) == stk[frm].file
FrameLine(stk, frm) == stk[frm].lineno

RECURSIVE get_frame_depth(_)
\* _get_frame_depth: the number of frames from frm to the chain's root
get_frame_depth(frm) ==
    IF frm = NoFrame THEN 0 ELSE 1 + get_frame_depth(f_back(frm))

caller_chain_root_first(frm) == [i \in 1..frm |-> i]

RECURSIVE caller_chain(_)
\* the loop of _capture_full_stack: frm, frm.f_back, ... up to the root
caller_chain(frm) ==
    IF frm = NoFrame THEN <<>> ELSE <<frm>> \o caller_chain(f_back(frm))

\* list.index, 0-based
IndexOf(seq, x) == (CHOOSE i \in 1..Len(seq) : seq[i] = x) - 1
Contains(seq, x) == \E i \in 1..Len(seq) : seq[i] = x

\* _capture_full_stack: the snapshot, the inspection index and frame
capture_full_stack(most_recent_frame, exec_frame, old_idx, old_frame) ==
    LET full == caller_chain(most_recent_frame)
    IN  IF exec_frame # NoFrame /\ Contains(full, exec_frame)
        THEN [full |-> full, idx |-> IndexOf(full, exec_frame),
              frame |-> exec_frame]
        ELSE IF full # <<>>
        THEN [full |-> full, idx |-> 0, frame |-> full[1]]
        ELSE [full |-> full, idx |-> old_idx, frame |-> old_frame]

----------------------------------------------------------------------------
(* PyDebugger.trace_dispatch *)

\* dispatch: the target's last trace event, the trace function the
\* interpreter called for it ("None": the event was not traced), and for
\* trace_dispatch its stop_now and reason_for_stop, what it did with a
\* breakpoint (outcome: what eval() of its condition did; budget and nth: the
\* ignore budget last set on the evaluated breakpoint and this evaluation's
\* number since), and the handle returned to the host ("pending" while
\* cmdloop runs)
NoDispatch ==
    [ event |-> "none", handler |-> "None", depth |-> 0, file |-> NoFile,
      lineno |-> 0,
      stop_now |-> FALSE, reason |-> "None", bp_id |-> 0,
      bp_checked |-> FALSE, cond_evaluated |-> FALSE, outcome |-> "None",
      handle |-> "none", budget |-> 0, nth |-> 0 ]

\* last_resume: the resume command, the depth and file of the frame it was
\* issued in, the line it named, and the inspection index it was issued at
NoResume ==
    [cmd |-> "none", depth |-> 0, file |-> NoFile, lineno |-> 0, idx |-> 0]

NoCmd == [ name |-> "none", arg |-> 0, pre_idx |-> 0, pre_frame |-> NoFrame,
           ret |-> FALSE, raised |-> "", file |-> NoFile, lineno |-> 0,
           expr |-> <<>>, loc |-> Loc(NoFile, "int", 0, <<>>) ]

\* lines 426-435: stop_now and reason_for_stop as the pending request leaves
\* them, and the request consumed
pending_request(sm) ==
    [ stop_now |-> sm.request_stop_at_next_suitable_event,
      reason |-> IF sm.request_stop_at_next_suitable_event
                 THEN "Initial entry" ELSE "None",
      sm |-> [sm EXCEPT !.request_stop_at_next_suitable_event = FALSE] ]

Stop(sm, reason) ==
    [ stop_now |-> TRUE, reason |-> reason,
      sm |-> [sm EXCEPT !.request_stop_at_next_suitable_event = FALSE] ]

\* lines 437-444: a call event
stop_on_call(sm) ==
    IF sm.step_into THEN Stop(sm, "Step into")
    ELSE IF sm.step_over \/ sm.step_out
    THEN [pending_request(sm) EXCEPT !.stop_now = FALSE]
    ELSE pending_request(sm)

\* lines 445-468: a line event
stop_on_line(sm, current_depth, current_file_abs, lineno) ==
    IF sm.run_until_line_info # NoneInfo
    THEN IF sm.run_until_line_info = <<current_file_abs, lineno>>
         THEN [Stop(sm, "Until") EXCEPT !.sm.run_until_line_info = NoneInfo]
         ELSE pending_request(sm)
    ELSE IF sm.step_into THEN Stop(sm, "Step")
    ELSE IF sm.step_over /\ current_depth <= sm.step_over_target_depth
    THEN Stop(sm, "Next")
    ELSE IF sm.step_out /\ current_depth <= sm.step_out_target_depth
    THEN Stop(sm, "Finish")
    ELSE IF sm.request_stop_at_next_suitable_event
    THEN Stop(sm, "First line")
    ELSE pending_request(sm)

stop_on_exception_as_any_event(sm) == pending_request(sm)

\* lines 469-471: an exception event
stop_on_exception(sm) == Stop(sm, "Exception")

\* lines 426-471: the stop decision taken from the stepping state alone, and
\* the stepping state it leaves
stop_decision(sm, event, current_depth, current_file_abs, lineno) ==
    CASE event = "call" -> stop_on_call(sm)
      [] event = "line" ->
            stop_on_line(sm, current_depth, current_file_abs, lineno)
      [] event = "exception" -> stop_on_exception(sm)
      [] OTHER -> pending_request(sm)

\* the host's stack once the handler of event has returned to it
AfterEvent(stk, event) == IF event = "return" THEN Pop(stk) ELSE stk

\* what the interpreter does with the value a trace function returns: it
\* becomes the frame's trace function, except that None returned for a line,
\* return or exception event leaves the frame's trace function as it is
Returned(stk, event, handle) ==
    IF handle = "None" /\ event # "call" THEN stk
    ELSE [stk EXCEPT ![Len(stk)].f_trace = handle]

\* the event as dispatch records it
EventOf(stk, event, handler) ==
    [NoDispatch EXCEPT
       !.event = event, !.handler = handler,
       !.depth = Len(stk),
       !.file = abspath(stk[Len(stk)].file),
       !.lineno = stk[Len(stk)].lineno]

\* the host goes on with the target, or the decorated call has returned
HostPc(stk) == IF Len(stk) > Len(OuterFrames) THEN "running" ELSE "ended"

\* lines 421-423: the session has quit
TraceDispatchQuit(stk, event) ==
    /\ dispatch' = [EventOf(stk, event, "trace_dispatch") EXCEPT
                      !.handle = "None"]
    /\ trace_func' = "None"
    /\ stack' = AfterEvent(Returned(stk, event, "None"), event)
    /\ pc' = HostPc(stack')
    /\ UNCHANGED <<session_vars, quit_debugger, last_resume, last_cmd,
                   output, ignore_set>>

TraceDispatchLive_checking_lines_only(stk, event, outcome) ==
    LET frm == Len(stk)
        current_file_abs == abspath(FrameFile(stk, frm))
        lineno == FrameLine(stk, frm)
        current_depth == get_frame_depth(frm)
        decided == stop_decision(state_manager, event, current_depth,
                                 current_file_abs, lineno)
        checked == IF decided.stop_now \/ event # "line"
                   THEN [ bm |-> breakpoint_manager, hit |-> FALSE,
                          bp_id |-> 0, looked_up |-> FALSE,
                          cond_evaluated |-> FALSE ]
                   ELSE check_breakpoint(breakpoint_manager,
                                         current_file_abs, lineno, outcome)
        stop_now == decided.stop_now \/ checked.hit
        reason_for_stop == IF checked.hit THEN "BP" ELSE decided.reason
        snap == capture_full_stack(frm, frm, interaction_stack_idx,
                                   interaction_frame)
        sm == decided.sm
        tracked == checked.looked_up /\ checked.bp_id \in DOMAIN ignore_set
        seen == IF tracked THEN ignore_set[checked.bp_id].seen + 1 ELSE 0
    IN  /\ execution_frame' = frm
        /\ breakpoint_manager' = checked.bm
        /\ ignore_set' = IF tracked
                         THEN [ignore_set EXCEPT ![checked.bp_id].seen = seen]
                         ELSE ignore_set
        /\ dispatch' = [ event |-> event, handler |-> "trace_dispatch",
                         depth |-> current_depth,
                         file |-> current_file_abs, lineno |-> lineno,
                         stop_now |-> stop_now,
                         reason |-> reason_for_stop,
                         bp_id |-> checked.bp_id,
                         bp_checked |-> ~decided.stop_now,
                         cond_evaluated |-> checked.cond_evaluated,
                         outcome |-> IF checked.cond_evaluated THEN outcome
                                     ELSE "None",
                         handle |-> IF stop_now THEN "pending"
                                    ELSE "trace_dispatch",
                         budget |-> IF tracked
                                    THEN ignore_set[checked.bp_id].n ELSE 0,
                         nth |-> seen ]
        /\ IF stop_now
           THEN /\ full_stack_at_stop' = snap.full
                /\ interaction_frame' = frm
                /\ interaction_stack_idx' = 0
                /\ state_manager' =
                     IF sm.step_into \/ sm.step_over \/ sm.step_out
                     THEN reset_stepping_flags(sm) ELSE sm
                /\ stack' = stk
                /\ pc' = "prompt"
           ELSE /\ state_manager' = sm
                /\ stack' = AfterEvent(Returned(stk, event, "trace_dispatch"),
                                       event)
                /\ pc' = HostPc(stack')
                /\ UNCHANGED <<full_stack_at_stop, interaction_frame,
                               interaction_stack_idx>>
        /\ UNCHANGED <<watched_expressions, quit_debugger, trace_func,
                       last_resume, last_cmd, output>>

TraceDispatchLive_checking_always(stk, event, outcome) ==
    LET frm == Len(stk)
        current_file_abs == abspath(FrameFile(stk, frm))
        lineno == FrameLine(stk, frm)
        current_depth == get_frame_depth(frm)
        decided == stop_decision(state_manager, event, current_depth,
                                 current_file_abs, lineno)
        checked == check_breakpoint(breakpoint_manager,
                                    current_file_abs, lineno, outcome)
        stop_now == decided.stop_now \/ checked.hit
        reason_for_stop == IF checked.hit THEN "BP" ELSE decided.reason
        snap == capture_full_stack(frm, frm, interaction_stack_idx,
                                   interaction_frame)
        sm == decided.sm
        tracked == checked.looked_up /\ checked.bp_id \in DOMAIN ignore_set
        seen == IF tracked THEN ignore_set[checked.bp_id].seen + 1 ELSE 0
    IN  /\ execution_frame' = frm
        /\ breakpoint_manager' = checked.bm
        /\ ignore_set' = IF tracked
                         THEN [ignore_set EXCEPT ![checked.bp_id].seen = seen]
                         ELSE ignore_set
        /\ dispatch' = [ event |-> event, handler |-> "trace_dispatch",
                         depth |-> current_depth,
                         file |-> current_file_abs, lineno |-> lineno,
                         stop_now |-> stop_now,
                         reason |-> reason_for_stop,
                         bp_id |-> checked.bp_id,
                         bp_checked |-> ~decided.stop_now,
                         cond_evaluated |-> checked.cond_evaluated,
                         outcome |-> IF checked.cond_evaluated THEN outcome
                                     ELSE "None",
                         handle |-> IF stop_now THEN "pending"
                                    ELSE "trace_dispatch",
                         budget |-> IF tracked
                                    THEN ignore_set[checked.bp_id].n ELSE 0,
                         nth |-> seen ]
        /\ IF stop_now
           THEN /\ full_stack_at_stop' = snap.full
                /\ interaction_frame' = frm
                /\ interaction_stack_idx' = 0
                /\ state_manager' =
                     IF sm.step_into \/ sm.step_over \/ sm.step_out
                     THEN reset_stepping_flags(sm) ELSE sm
                /\ stack' = stk
                /\ pc' = "prompt"
           ELSE /\ state_manager' = sm
                /\ stack' = AfterEvent(Returned(stk, event, "trace_dispatch"),
                                       event)
                /\ pc' = HostPc(stack')
                /\ UNCHANGED <<full_stack_at_stop, interaction_frame,
                               interaction_stack_idx>>
        /\ UNCHANGED <<watched_expressions, quit_debugger, trace_func,
                       last_resume, last_cmd, output>>

\* lines 424-510, up to cmdloop
TraceDispatchLive(stk, event, outcome) ==
    LET frm == Len(stk)
        current_file_abs == abspath(FrameFile(stk, frm))
        lineno == FrameLine(stk, frm)
        current_depth == get_frame_depth(frm)
        decided == stop_decision(state_manager, event, current_depth,
                                 current_file_abs, lineno)
        checked == IF decided.stop_now
                   THEN [ bm |-> breakpoint_manager, hit |-> FALSE,
                          bp_id |-> 0, looked_up |-> FALSE,
                          cond_evaluated |-> FALSE ]
                   ELSE check_breakpoint(breakpoint_manager,
                                         current_file_abs, lineno, outcome)
        stop_now == decided.stop_now \/ checked.hit
        reason_for_stop == IF checked.hit THEN "BP" ELSE decided.reason
        snap == capture_full_stack(frm, frm, interaction_stack_idx,
                                   interaction_frame)
        sm == decided.sm
        tracked == checked.looked_up /\ checked.bp_id \in DOMAIN ignore_set
        seen == IF tracked THEN ignore_set[checked.bp_id].seen + 1 ELSE 0
    IN  /\ execution_frame' = frm
        /\ breakpoint_manager' = checked.bm
        /\ ignore_set' = IF tracked
                         THEN [ignore_set EXCEPT ![checked.bp_id].seen = seen]
                         ELSE ignore_set
        /\ dispatch' = [ event |-> event, handler |-> "trace_dispatch",
                         depth |-> current_depth,
                         file |-> current_file_abs, lineno |-> lineno,
                         stop_now |-> stop_now,
                         reason |-> reason_for_stop,
                         bp_id |-> checked.bp_id,
                         bp_checked |-> ~decided.stop_now,
                         cond_evaluated |-> checked.cond_evaluated,
                         outcome |-> IF checked.cond_evaluated THEN outcome
                                     ELSE "None",
                         handle |-> IF stop_now THEN "pending"
                                    ELSE "trace_dispatch",
                         budget |-> IF tracked
                                    THEN ignore_set[checked.bp_id].n ELSE 0,
                         nth |-> seen ]
        /\ IF stop_now
           THEN /\ full_stack_at_stop' = snap.full
                /\ interaction_frame' = frm
                /\ interaction_stack_idx' = 0
                /\ state_manager' =
                     IF sm.step_into \/ sm.step_over \/ sm.step_out
                     THEN reset_stepping_flags(sm) ELSE sm
                /\ stack' = stk
                /\ pc' = "prompt"
           ELSE /\ state_manager' = sm
                /\ stack' = AfterEvent(Returned(stk, event, "trace_dispatch"),
                                       event)
                /\ pc' = HostPc(stack')
                /\ UNCHANGED <<full_stack_at_stop, interaction_frame,
                               interaction_stack_idx>>
        /\ UNCHANGED <<watched_expressions, quit_debugger, trace_func,
                       last_resume, last_cmd, output>>

\* trace_dispatch(frm, event, arg) for the innermost frame of stk; outcome is
\* what evaluating a breakpoint condition would do on this event
TraceDispatch(stk, event, outcome) ==
    IF quit_debugger THEN TraceDispatchQuit(stk, event)
    ELSE TraceDispatchLive(stk, event, outcome)

----------------------------------------------------------------------------
(* actual_function_wrapper and the host interpreter: one action per trace   *)
(* event of the target                                                      *)

\* the interpreter calls no trace function for the event
Untraced(stk, event) ==
    /\ dispatch' = EventOf(stk, event, "None")
    /\ stack' = AfterEvent(stk, event)
    /\ pc' = HostPc(stack')
    /\ UNCHANGED <<session_vars, quit_debugger, trace_func, last_resume,
                   last_cmd, output, ignore_set>>

\* obj_to_debug of the wrapper whose _initial_trace_for_this_func_entry is
\* installed: the innermost wrapper that did call settrace
installed_for(stk) ==
    LET installing == {i \in 1..Len(stk) :
                         /\ stk[i].co_name = "actual_function_wrapper"
                         /\ ~stk[i].is_already_tracing_with_our_debugger}
    IN  IF installing = {} THEN "None"
        ELSE stk[CHOOSE i \in installing : \A j \in installing : j <= i]
                 .obj_to_debug

initial_trace_taking_every_call(stk, event, outcome) ==
    IF event = "call" THEN TraceDispatch(stk, event, outcome)
    ELSE Untraced(stk, event)

\* _initial_trace_for_this_func_entry: the call event of the decorated
\* function's code goes to the session (built by Init); for any other event
\* the function returns itself and does nothing
initial_trace_for_this_func_entry(stk, event, outcome) ==
    IF event = "call" /\ Top(stk).co_name = installed_for(stk)
    THEN TraceDispatch(stk, event, outcome)
    ELSE /\ dispatch' = [EventOf(stk, event, "_initial_trace") EXCEPT
                           !.handle = "_initial_trace"]
         /\ stack' = AfterEvent(Returned(stk, event, "_initial_trace"), event)
         /\ pc' = HostPc(stack')
         /\ UNCHANGED <<session_vars, quit_debugger, trace_func, last_resume,
                        last_cmd, output, ignore_set>>

\* the trace function the interpreter calls for an event in the innermost
\* frame: none once settrace(None) has run, the installed one for a call, the
\* frame's own for the other events
Handler(stk, event) ==
    IF trace_func = "None" THEN "None"
    ELSE IF event = "call" THEN trace_func
    ELSE Top(stk).f_trace

Deliver(stk, event, outcome) ==
    CASE Handler(stk, event) = "trace_dispatch" ->
            TraceDispatch(stk, event, outcome)
      [] Handler(stk, event) = "_initial_trace" ->
            initial_trace_for_this_func_entry(stk, event, outcome)
      [] OTHER -> Untraced(stk, event)

\* line 957: the wrapper calls the decorated function
Entry ==
    /\ pc = "entry"
    /\ \E outcome \in CondOutcomes : Deliver(stack, "call", outcome)

\* the target has run a line of the innermost frame's body
InBody == Top(stack).lineno \in BodyLines

\* the target calls a function that is not decorated
HostCall ==
    /\ pc = "running"
    /\ InBody
    /\ Len(stack) < MaxDepth
    /\ \E callee \in CalleeFrames, outcome \in CondOutcomes :
          Deliver(Append(stack, callee), "call", outcome)

HostLine ==
    /\ pc = "running"
    /\ \E l \in BodyLines, outcome \in CondOutcomes :
          Deliver([stack EXCEPT ![Len(stack)].lineno = l], "line", outcome)

HostReturn ==
    /\ pc = "running"
    /\ InBody
    /\ \E outcome \in CondOutcomes : Deliver(stack, "return", outcome)

\* an exception raised or passing through the innermost frame, which catches
\* it or returns next
HostException ==
    /\ pc = "running"
    /\ InBody
    /\ \E outcome \in CondOutcomes : Deliver(stack, "exception", outcome)

\* the evaluations explored: no breakpoint is evaluated more than bound times
HitsWithin(bound) ==
    \A id \in DOMAIN breakpoint_manager'.breakpoints_by_id :
        breakpoint_manager'.breakpoints_by_id[id].hit_count <= bound

----------------------------------------------------------------------------
(* The operator's commands, run by cmdloop while the session is stopped *)

ResumeCmd(name, lineno) ==
    [ cmd |-> name, depth |-> Len(stack), file |-> abspath(Top(stack).file),
      lineno |-> lineno, idx |-> interaction_stack_idx ]

\* a command that returns True ends cmdloop: trace_dispatch returns handle to
\* the host (lines 505-510)
Resume(sm, cmd, handle) ==
    /\ state_manager' = sm
    /\ stack' = AfterEvent(Returned(stack, dispatch.event, handle),
                           dispatch.event)
    /\ pc' = HostPc(stack')
    /\ dispatch' = NoDispatch
    /\ last_resume' = cmd
    /\ last_cmd' = NoCmd
    /\ output' = ""
    /\ UNCHANGED <<breakpoint_manager, execution_frame, interaction_frame,
                   full_stack_at_stop, interaction_stack_idx,
                   watched_expressions, ignore_set>>

\* a command that returns None or False: cmdloop prompts again
StayWith(cmd, msg) ==
    /\ last_cmd' = cmd
    /\ output' = msg
    /\ UNCHANGED <<stack, pc, dispatch, last_resume, quit_debugger,
                   trace_func>>

\* an exception no handler catches leaves cmdloop and trace_dispatch: the
\* interpreter drops the trace function and the error reaches the target
Crash(cmd) ==
    /\ pc' = "crashed"
    /\ trace_func' = "None"
    /\ last_cmd' = cmd
    /\ output' = "Traceback"
    /\ UNCHANGED <<stack, dispatch, last_resume, quit_debugger>>

do_next_from_inspected_frame ==
    /\ pc = "prompt"
    /\ Resume(configure_for_step_over(state_manager,
                                      get_frame_depth(interaction_frame)),
              ResumeCmd("next", 0), "trace_dispatch")
    /\ UNCHANGED <<quit_debugger, trace_func>>

do_next ==
    /\ pc = "prompt"
    /\ Resume(configure_for_step_over(state_manager,
                                      get_frame_depth(execution_frame)),
              ResumeCmd("next", 0), "trace_dispatch")
    /\ UNCHANGED <<quit_debugger, trace_func>>

do_step ==
    /\ pc = "prompt"
    /\ Resume(configure_for_step_into(state_manager), ResumeCmd("step", 0),
              "trace_dispatch")
    /\ UNCHANGED <<quit_debugger, trace_func>>

do_continue ==
    /\ pc = "prompt"
    /\ Resume(configure_for_run(state_manager), ResumeCmd("continue", 0),
              "trace_dispatch")
    /\ UNCHANGED <<quit_debugger, trace_func>>

do_quit_only_resuming ==
    /\ pc = "prompt"
    /\ Resume(state_manager, ResumeCmd("quit", 0), "trace_dispatch")
    /\ UNCHANGED <<quit_debugger, trace_func>>

\* do_quit sets the flag and uninstalls the trace function; trace_dispatch
\* then returns None (lines 506-508)
do_quit ==
    /\ pc = "prompt"
    /\ quit_debugger' = TRUE
    /\ trace_func' = "None"
    /\ Resume(state_manager, ResumeCmd("quit", 0), "None")

do_finish ==
    /\ pc = "prompt"
    /\ IF execution_frame = NoFrame \/ f_back(execution_frame) = NoFrame
       THEN /\ StayWith([NoCmd EXCEPT !.name = "finish"], "Cannot 'finish'.")
            /\ UNCHANGED <<session_vars, ignore_set>>
       ELSE /\ Resume(configure_for_step_out(
                          state_manager,
                          get_frame_depth(f_back(execution_frame))),
                      ResumeCmd("finish", 0), "trace_dispatch")
            /\ UNCHANGED <<quit_debugger, trace_func>>

\* the argument texts of until: none, not an integer, or an integer
UntilArgs ==
    {[kind |-> "none", n |-> 0], [kind |-> "bad", n |-> 0]}
        \cup {[kind |-> "int", n |-> l] : l \in BodyLines}

do_rununtil(arg) ==
    /\ pc = "prompt"
    /\ IF arg.kind = "none"
       THEN /\ StayWith([NoCmd EXCEPT !.name = "until"], "Line # required.")
            /\ UNCHANGED <<session_vars, ignore_set>>
       ELSE IF execution_frame = NoFrame
       THEN /\ StayWith([NoCmd EXCEPT !.name = "until"], "No exec frame.")
            /\ UNCHANGED <<session_vars, ignore_set>>
       ELSE IF arg.kind = "bad"
       THEN /\ StayWith([NoCmd EXCEPT !.name = "until",
                                      !.raised = "ValueError"],
                        "Invalid line #")
            /\ UNCHANGED <<session_vars, ignore_set>>
       ELSE /\ Resume(configure_for_run_until(
                          state_manager,
                          abspath(FrameFile(stack, execution_frame)), arg.n),
                      ResumeCmd("until", arg.n), "trace_dispatch")
            /\ UNCHANGED <<quit_debugger, trace_func>>

\* emptyline: the operator enters an empty line and the last non-empty line
\* runs again through onecmd, with its result dropped, so cmdloop prompts
\* again whatever the handler returned.  onecmd does not expand aliases: a
\* line typed with an alias goes to default(), which evaluates it as an
\* expression and changes nothing.  The last non-empty line is the resume
\* command that led to this stop unless a command was refused since.
emptyline(alias) ==
    /\ pc = "prompt"
    /\ LET repeated == IF last_cmd.name \in {"none", "emptyline"}
                       THEN last_resume.cmd ELSE "refused"
           depth == get_frame_depth(execution_frame)
           sm == CASE alias -> state_manager
                   [] repeated = "next" ->
                        configure_for_step_over(state_manager, depth)
                   [] repeated = "step" ->
                        configure_for_step_into(state_manager)
                   [] repeated = "continue" ->
                        configure_for_run(state_manager)
                   [] repeated = "finish"
                        /\ execution_frame # NoFrame
                        /\ f_back(execution_frame) # NoFrame ->
                        configure_for_step_out(
                            state_manager,
                            get_frame_depth(f_back(execution_frame)))
                   [] repeated = "until" ->
                        configure_for_run_until(
                            state_manager,
                            abspath(FrameFile(stack, execution_frame)),
                            last_resume.lineno)
                   [] OTHER -> state_manager
       IN  /\ state_manager' = sm
           /\ StayWith([NoCmd EXCEPT !.name = "emptyline"],
                       IF repeated = "none" THEN "" ELSE "Repeating")
    /\ UNCHANGED <<breakpoint_manager, execution_frame, interaction_frame,
                   full_stack_at_stop, interaction_stack_idx,
                   watched_expressions, ignore_set>>

\* the argument texts of up and down: none, not an integer, or an integer
MoveArgs ==
    {[kind |-> "none", n |-> 1], [kind |-> "bad", n |-> 0]}
        \cup {[kind |-> "int", n |-> c] : c \in {-1, 2, MaxDepth}}

stack_move_clamped(idx, delta, len) ==
    [ moved |-> TRUE,
      idx |-> IF idx + delta < 0 THEN 0
              ELSE IF idx + delta >= len THEN len - 1 ELSE idx + delta ]

\* lines 866-873 and 888-895: the index after moving by delta in a snapshot of
\* len frames, and whether the move was made
stack_move(idx, delta, len) ==
    LET n_idx == idx + delta
    IN  IF 0 <= n_idx /\ n_idx < len
        THEN [moved |-> TRUE, idx |-> n_idx]
        ELSE [moved |-> FALSE, idx |-> idx]

move_stack_keeping_frame(name, sign, arg, boundary) ==
    /\ pc = "prompt"
    /\ LET cmd == [NoCmd EXCEPT !.name = name, !.arg = arg.n,
                                !.pre_idx = interaction_stack_idx,
                                !.pre_frame = interaction_frame]
           m == stack_move(interaction_stack_idx, sign * arg.n,
                           Len(full_stack_at_stop))
       IN  IF full_stack_at_stop = <<>>
           THEN /\ StayWith(cmd, "No stack.")
                /\ UNCHANGED <<session_vars, ignore_set>>
           ELSE IF arg.kind = "bad"
           THEN /\ StayWith([cmd EXCEPT !.raised = "ValueError"],
                            "Invalid count.")
                /\ UNCHANGED <<session_vars, ignore_set>>
           ELSE IF m.moved
           THEN /\ interaction_stack_idx' = m.idx
                /\ interaction_frame' = interaction_frame
                /\ StayWith([cmd EXCEPT !.ret = TRUE], "Frame")
                /\ UNCHANGED <<state_manager, breakpoint_manager,
                               execution_frame, full_stack_at_stop,
                               watched_expressions, ignore_set>>
           ELSE /\ StayWith(cmd, boundary)
                /\ UNCHANGED <<session_vars, ignore_set>>

\* do_up_stack (sign = 1) and do_down_stack (sign = -1)
move_stack(name, sign, arg, boundary) ==
    /\ pc = "prompt"
    /\ LET cmd == [NoCmd EXCEPT !.name = name, !.arg = arg.n,
                                !.pre_idx = interaction_stack_idx,
                                !.pre_frame = interaction_frame]
           m == stack_move(interaction_stack_idx, sign * arg.n,
                           Len(full_stack_at_stop))
       IN  IF full_stack_at_stop = <<>>
           THEN /\ StayWith(cmd, "No stack.")
                /\ UNCHANGED <<session_vars, ignore_set>>
           ELSE IF arg.kind = "bad"
           THEN /\ StayWith([cmd EXCEPT !.raised = "ValueError"],
                            "Invalid count.")
                /\ UNCHANGED <<session_vars, ignore_set>>
           ELSE IF m.moved
           THEN /\ interaction_stack_idx' = m.idx
                /\ interaction_frame' = full_stack_at_stop[m.idx + 1]
                /\ StayWith([cmd EXCEPT !.ret = TRUE], "Frame")
                /\ UNCHANGED <<state_manager, breakpoint_manager,
                               execution_frame, full_stack_at_stop,
                               watched_expressions, ignore_set>>
           ELSE /\ StayWith(cmd, boundary)
                /\ UNCHANGED <<session_vars, ignore_set>>

do_up_stack(arg) == move_stack("up", 1, arg, "Cannot move further up.")

do_down_stack(arg) == move_stack("down", -1, arg, "Cannot move further down.")

\* do_break: resolve the location against the inspected frame's file and add
do_break(loc, cond) ==
    /\ pc = "prompt"
    /\ LET ctx_file == FrameFile(stack, interaction_frame)
           parsed == parse_location_string(breakpoint_manager, loc, ctx_file)
           cmd == [NoCmd EXCEPT !.name = "break", !.raised = parsed.raised,
                                !.loc = loc,
                                !.file = parsed.file_abs,
                                !.lineno = parsed.lineno]
       IN  IF parsed.raised # ""
           THEN /\ breakpoint_manager' = parsed.bm
                /\ Crash(cmd)
           ELSE IF parsed.file_abs # NoFile /\ parsed.lineno # 0
           THEN LET added == add_breakpoint(parsed.bm, parsed.file_abs,
                                            parsed.lineno, cond, 0)
                IN  /\ breakpoint_manager' = added.bm
                    /\ StayWith([cmd EXCEPT !.ret = TRUE, !.arg = added.bp_id],
                                "Breakpoint set")
           ELSE /\ breakpoint_manager' = parsed.bm
                /\ StayWith(cmd, "")
    /\ UNCHANGED <<state_manager, execution_frame, interaction_frame,
                   full_stack_at_stop, interaction_stack_idx,
                   watched_expressions, ignore_set>>

NoLoc == Loc(NoFile, "int", 0, <<>>)
\* the argument of clear: "all", an integer text (taken as an id) or any other
\* text (taken as a location)
ClearAll == [kind |-> "all", n |-> 0, loc |-> NoLoc]
ClearId(i) == [kind |-> "int", n |-> i, loc |-> NoLoc]
ClearLoc(l) == [kind |-> "loc", n |-> 0, loc |-> l]

do_clear(arg) ==
    /\ pc = "prompt"
    /\ LET ctx_file == FrameFile(stack, interaction_frame)
           parsed == parse_location_string(breakpoint_manager, arg.loc,
                                           ctx_file)
           r == CASE arg.kind = "all" ->
                       [ bm |-> clear_all_breakpoints(breakpoint_manager),
                         ret |-> FALSE, raised |-> "" ]
                  [] arg.kind = "int" ->
                       clear_breakpoint_id(breakpoint_manager, arg.n)
                  [] OTHER ->
                       clear_breakpoint_loc(breakpoint_manager, arg.loc,
                                            ctx_file)
           cmd == [NoCmd EXCEPT
                     !.name = IF arg.kind = "loc" THEN "clear at" ELSE "clear",
                     !.arg = arg.n, !.ret = r.ret, !.raised = r.raised,
                     !.file = IF arg.kind = "loc" THEN parsed.file_abs
                              ELSE NoFile,
                     !.lineno = IF arg.kind = "loc" THEN parsed.lineno ELSE 0]
       IN  /\ breakpoint_manager' = r.bm
           /\ ignore_set' = [id \in (DOMAIN ignore_set)
                                      \cap (DOMAIN r.bm.breakpoints_by_id) |->
                                ignore_set[id]]
           /\ IF r.raised # "" THEN Crash(cmd)
              ELSE StayWith(cmd, IF r.ret THEN "cleared" ELSE "")
    /\ UNCHANGED <<state_manager, execution_frame, interaction_frame,
                   full_stack_at_stop, interaction_stack_idx,
                   watched_expressions>>

\* do_ignore_breakpoint with two integer texts
do_ignore_breakpoint(bp_id, count) ==
    /\ pc = "prompt"
    /\ LET r == set_ignore_count(breakpoint_manager, bp_id, count)
       IN  /\ breakpoint_manager' = r.bm
           /\ ignore_set' = IF r.ret
                            THEN (bp_id :> [n |-> count, seen |-> 0])
                                     @@ ignore_set
                            ELSE ignore_set
           /\ StayWith([NoCmd EXCEPT !.name = "ignore", !.arg = bp_id,
                                     !.ret = r.ret],
                       IF r.ret THEN "will ignore" ELSE "not found")
    /\ UNCHANGED <<state_manager, execution_frame, interaction_frame,
                   full_stack_at_stop, interaction_stack_idx,
                   watched_expressions>>

\* An argument text of watch and unwatch is the sequence of its characters.
\* int(): the decimal digits and their values
Digits ==
    ("0" :> 0) @@ ("1" :> 1) @@ ("2" :> 2) @@ ("3" :> 3) @@ ("4" :> 4)
        @@ ("5" :> 5) @@ ("6" :> 6) @@ ("7" :> 7) @@ ("8" :> 8) @@ ("9" :> 9)

RECURSIVE digits_value(_)
digits_value(ds) ==
    IF ds = <<>> THEN 0
    ELSE 10 * digits_value(SubSeq(ds, 1, Len(ds) - 1)) + Digits[ds[Len(ds)]]

\* int(arg) for a text without blanks or underscores: an optional sign and
\* one or more decimal digits, anything else raises ValueError
int(text) ==
    LET signed == text # <<>> /\ text[1] \in {"-", "+"}
        ds == IF signed THEN Tail(text) ELSE text
    IN  IF ds # <<>> /\ \A i \in 1..Len(ds) : ds[i] \in DOMAIN Digits
        THEN [ raised |-> "",
               value |-> IF signed /\ text[1] = "-" THEN 0 - digits_value(ds)
                         ELSE digits_value(ds) ]
        ELSE [ raised |-> "ValueError", value |-> 0 ]

\* list.pop(idx) for 0 <= idx < len: the list without its entry at idx
list_pop(seq, idx) ==
    SubSeq(seq, 1, idx) \o SubSeq(seq, idx + 2, Len(seq))

\* list.remove(x) for x in the list: the list without its first x
list_remove(seq, x) == list_pop(seq, IndexOf(seq, x))

do_watch_expr_always_appending(arg) ==
    /\ pc = "prompt"
    /\ IF arg = <<>>
       THEN /\ StayWith([NoCmd EXCEPT !.name = "watch"], "Expr required.")
            /\ UNCHANGED watched_expressions
       ELSE /\ watched_expressions' = Append(watched_expressions, arg)
            /\ StayWith([NoCmd EXCEPT !.name = "watch", !.expr = arg],
                        "Watching")
    /\ UNCHANGED <<state_manager, breakpoint_manager, execution_frame,
                   interaction_frame, full_stack_at_stop,
                   interaction_stack_idx, ignore_set>>

\* do_watch_expr; _print_watched_expressions catches what eval() raises and
\* changes nothing
do_watch_expr(arg) ==
    /\ pc = "prompt"
    /\ IF arg = <<>>
       THEN /\ StayWith([NoCmd EXCEPT !.name = "watch"], "Expr required.")
            /\ UNCHANGED watched_expressions
       ELSE IF ~Contains(watched_expressions, arg)
       THEN /\ watched_expressions' = Append(watched_expressions, arg)
            /\ StayWith([NoCmd EXCEPT !.name = "watch", !.expr = arg],
                        "Watching")
       ELSE /\ StayWith([NoCmd EXCEPT !.name = "watch", !.expr = arg],
                        "Already watching")
            /\ UNCHANGED watched_expressions
    /\ UNCHANGED <<state_manager, breakpoint_manager, execution_frame,
                   interaction_frame, full_stack_at_stop,
                   interaction_stack_idx, ignore_set>>

\* do_unwatch_expr: the argument is tried as an index first
do_unwatch_expr(arg) ==
    /\ pc = "prompt"
    /\ LET idx == int(arg)
           cmd == [NoCmd EXCEPT !.name = "unwatch", !.expr = arg,
                                !.raised = idx.raised]
       IN  IF arg = <<>>
           THEN /\ StayWith([NoCmd EXCEPT !.name = "unwatch"],
                            "Expr or idx required.")
                /\ UNCHANGED watched_expressions
           ELSE IF idx.raised = ""
           THEN IF 0 <= idx.value /\ idx.value < Len(watched_expressions)
                THEN /\ watched_expressions'
                          = list_pop(watched_expressions, idx.value)
                     /\ StayWith(cmd, "Unwatched")
                ELSE /\ StayWith(cmd, "Invalid idx")
                     /\ UNCHANGED watched_expressions
           ELSE IF Contains(watched_expressions, arg)
           THEN /\ watched_expressions'
                     = list_remove(watched_expressions, arg)
                /\ StayWith(cmd, "Unwatched")
           ELSE /\ StayWith(cmd, "Not watching")
                /\ UNCHANGED watched_expressions
    /\ UNCHANGED <<state_manager, breakpoint_manager, execution_frame,
                   interaction_frame, full_stack_at_stop,
                   interaction_stack_idx, ignore_set>>

\* the operator can still add a breakpoint within the bound explored
CanAdd(bound) == breakpoint_manager.next_bp_id <= bound

\* a decorated function other than f, at its call event
OtherDecoratedFrame == [file |-> "/w/b.py", lineno |-> 4, co_name |-> "h",
                        f_trace |-> "None"]
DecoratedFrames == {EntryFrame, OtherDecoratedFrame}

\* the wrappers on the stack
Wrappers(stk) ==
    {i \in 1..Len(stk) : stk[i].co_name = "actual_function_wrapper"}

\* lines 930-957: the target, running in the decorated function or below it,
\* calls a decorated function.  The wrapper looks at gettrace(): only a bound
\* trace_dispatch of this decoration's own PyDebugger class makes it call the
\* function under the existing session; otherwise it keeps the hook found,
\* installs its own _initial_trace_for_this_func_entry and calls the function,
\* whose call event builds a new PyDebugger.  The wrapper's own call event
\* went to the hook found, which gave the wrapper's frame its trace function.
actual_function_wrapper(callee) ==
    /\ pc = "running"
    /\ InBody
    /\ LET active_trace_func == trace_func
           is_already_tracing_with_our_debugger ==
               /\ active_trace_func = "trace_dispatch"
               /\ callee.co_name = EntryFrame.co_name
           wrapper == WrapperFrame(callee.co_name, active_trace_func,
                                   is_already_tracing_with_our_debugger,
                                   active_trace_func)
           stk == stack \o <<wrapper, callee>>
       IN  IF is_already_tracing_with_our_debugger
           THEN \E outcome \in CondOutcomes : Deliver(stk, "call", outcome)
           ELSE /\ stack' = stk
                /\ trace_func' = "_initial_trace"
                /\ pc' = "entry"
                /\ dispatch' = NoDispatch
                /\ last_resume' = NoResume
                /\ last_cmd' = NoCmd
                /\ output' = "Welcome"
                /\ state_manager' = StateManagerInit
                /\ breakpoint_manager' = BreakpointManagerInit
                /\ execution_frame' = Len(stk)
                /\ LET snap == capture_full_stack(Len(stk), Len(stk), 0,
                                                  Len(stk))
                   IN  /\ full_stack_at_stop' = snap.full
                       /\ interaction_stack_idx' = snap.idx
                       /\ interaction_frame' = snap.frame
                /\ watched_expressions' = <<>>
                /\ quit_debugger' = FALSE
                /\ ignore_set' = EmptyMap

\* lines 964-971, the wrapper's finally once the decorated call has returned
\* or raised: the hook that was active before the call is put back only if
\* the hook found now is the wrapper's own or the session's trace_dispatch
actual_function_wrapper_finally ==
    /\ pc = "ended"
    /\ LET current_trace == trace_func
           original_trace_func == Top(stack).original_trace_func
       IN  trace_func' = IF current_trace = "_initial_trace"
                            \/ current_trace = "trace_dispatch"
                         THEN original_trace_func
                         ELSE current_trace
    /\ stack' = Pop(stack)
    /\ pc' = "returned"
    /\ UNCHANGED <<session_vars, dispatch, last_resume, last_cmd, output,
                   quit_debugger, ignore_set>>

----------------------------------------------------------------------------
(* The session *)

\* The wrapper has installed _initial_trace_for_this_func_entry (line 954)
\* and the decorated function's frame is entered; its call event builds the
\* session with PyDebugger.__init__(entry_exec_frame)
InitWith(original_trace_func) ==
    /\ stack = << CallerFrame,
                  WrapperFrame(EntryFrame.co_name, original_trace_func,
                               FALSE, "None"),
                  EntryFrame >>
    /\ trace_func = "_initial_trace"
    /\ pc = "entry"
    /\ dispatch = NoDispatch
    /\ last_resume = NoResume
    /\ last_cmd = NoCmd
    /\ output = "Welcome"
    /\ state_manager = StateManagerInit
    /\ breakpoint_manager = BreakpointManagerInit
    /\ execution_frame = Len(stack)
    /\ LET snap == capture_full_stack(Len(stack), Len(stack), 0, Len(stack))
       IN  /\ full_stack_at_stop = snap.full
           /\ interaction_stack_idx = snap.idx
           /\ interaction_frame = snap.frame
    /\ watched_expressions = <<>>
    /\ quit_debugger = FALSE
    /\ ignore_set = EmptyMap

\* the host had no trace function installed when it called
Init == InitWith("None")

\* the host had any of its hooks installed when it called
InitHook == \E original_trace_func \in HostHooks : InitWith(original_trace_func)

----------------------------------------------------------------------------
(* Specifications.  Each one is the session driven by an operator who keeps *)
(* to some of the commands, over the argument texts listed for it.          *)

\* Spec, stepping: every trace event and every resume command, with
\* breakpoints set by line number in the decorated function and in the
\* function it calls
StepBreakLocs == {Loc(NoFile, "int", 2, <<>>), Loc("b.py", "int", 1, <<>>)}

Next ==
    \/ Entry
    \/ HostCall /\ HitsWithin(MaxStepHits)
    \/ HostLine /\ HitsWithin(MaxStepHits)
    \/ HostReturn /\ HitsWithin(MaxStepHits)
    \/ HostException
    \/ do_next
    \/ do_step
    \/ do_continue
    \/ do_finish
    \/ \E arg \in UntilArgs : do_rununtil(arg)
    \/ do_quit
    \/ CanAdd(MaxStepBp) /\ \E loc \in StepBreakLocs : do_break(loc, NoCond)

Spec == Init /\ [][Next]_vars

\* SpecStack, stack navigation: stops reached by stepping, and up/down over
\* the snapshot taken at each of them
NextStack ==
    \/ Entry
    \/ HostCall
    \/ HostLine
    \/ HostReturn
    \/ do_step
    \/ do_continue
    \/ \E arg \in MoveArgs : do_up_stack(arg)
    \/ \E arg \in MoveArgs : do_down_stack(arg)

SpecStack == Init /\ [][NextStack]_vars

\* SpecBreak, the breakpoint registry: break and clear in every form, and the
\* target running on under continue
BreakLocs ==
    { Loc(NoFile, "int", 2, <<>>),
      Loc("/w/a.py", "int", 2, <<>>),
      Loc("a.py", "name", 0, <<"f">>),
      Loc(NoFile, "name", 0, <<"A", "zz">>),
      Loc("missing.py", "name", 0, <<"b">>),
      Loc("bad.py", "name", 0, <<"b">>) }
BreakConds == {NoCond, "x > 3"}
ClearArgs ==
    {ClearAll} \cup {ClearId(i) : i \in 0..MaxBp}
        \cup {ClearLoc(l) : l \in BreakLocs \ {Loc(NoFile, "int", 2, <<>>)}}

NextBreak ==
    \/ Entry
    \/ HostLine /\ HitsWithin(MaxHits)
    \/ do_continue
    \/ CanAdd(MaxBp)
         /\ \E loc \in BreakLocs, cond \in BreakConds : do_break(loc, cond)
    \/ \E arg \in ClearArgs : do_clear(arg)

SpecBreak == Init /\ [][NextBreak]_vars

\* SpecIgnore, ignore budgets: a breakpoint, with or without a condition, its
\* budget set and reset, and the target reaching it again and again
IgnoreLocs == {Loc(NoFile, "int", 2, <<>>)}

NextIgnore ==
    \/ Entry
    \/ HostLine /\ HitsWithin(MaxIgnoreHits)
    \/ do_continue
    \/ CanAdd(MaxIgnoreBp)
         /\ \E loc \in IgnoreLocs, cond \in BreakConds : do_break(loc, cond)
    \/ \E id \in 1..MaxIgnoreBp, n \in 0..MaxIgnore :
          do_ignore_breakpoint(id, n)
    \/ \E arg \in {ClearLoc(Loc("a.py", "int", 2, <<>>))} : do_clear(arg)

SpecIgnore == Init /\ [][NextIgnore]_vars

\* SpecWatch, the watch list: the operator edits the list at the stops of
\* the decorated function, with names, texts that int() accepts (an index
\* inside the list, one outside it, a negative one) and no text at all
WatchArgs ==
    {<<>>, <<"x">>, <<"y">>, <<"0">>, <<"1">>, <<"-", "1">>}

NextWatch ==
    \/ Entry
    \/ HostLine
    \/ do_step
    \/ \E arg \in WatchArgs : do_watch_expr(arg)
    \/ \E arg \in WatchArgs : do_unwatch_expr(arg)

SpecWatch == Init /\ [][NextWatch]_vars

\* SpecResolve, symbolic locations: the operator sets breakpoints by dotted
\* name in the two files: names of top-level and nested functions, of a
\* function whose name also exists at top level or under another parent, of
\* classes, and paths that name nothing
MaxResolveBp == 2
ResolveNames ==
    { <<"f">>, <<"b">>, <<"c">>, <<"A">>, <<"A", "b">>, <<"A", "c">>,
      <<"A", "B">>, <<"A", "b", "c">>, <<"A", "B", "c">>, <<"B", "c">>,
      <<"b", "c">>, <<"A", "f">> }
ResolveLocs ==
    {Loc(NoFile, "name", 0, n) : n \in ResolveNames}
        \cup {Loc("b.py", "name", 0, n) :
                n \in {<<"b">>, <<"h", "b">>, <<"g", "b">>, <<"h">>}}

NextResolve ==
    \/ Entry
    \/ CanAdd(MaxResolveBp)
         /\ \E loc \in ResolveLocs : do_break(loc, NoCond)
    \/ do_clear(ClearAll)

SpecResolve == Init /\ [][NextResolve]_vars

\* SpecPrompt, the prompt: every resume command, well-formed or not, quit,
\* and the empty line that repeats the last line, typed with its alias or
\* with the handler's name
NextPrompt ==
    \/ Entry
    \/ HostCall
    \/ HostLine
    \/ HostReturn
    \/ do_next
    \/ do_step
    \/ do_continue
    \/ do_finish
    \/ \E arg \in UntilArgs : do_rununtil(arg)
    \/ do_quit
    \/ \E alias \in BOOLEAN : emptyline(alias)

SpecPrompt == Init /\ [][NextPrompt]_vars

\* SpecPriority, stops at a breakpoint's line for another reason: stepping,
\* until and exceptions over the line of a breakpoint with or without an
\* ignore budget
MaxPriorityBp == 1
MaxPriorityHits == 2
MaxPriorityIgnore == 1

NextPriority ==
    \/ Entry
    \/ HostLine /\ HitsWithin(MaxPriorityHits)
    \/ HostException
    \/ do_next
    \/ do_step
    \/ do_continue
    \/ \E l \in BodyLines : do_rununtil([kind |-> "int", n |-> l])
    \/ CanAdd(MaxPriorityBp)
         /\ \E loc \in IgnoreLocs, cond \in BreakConds : do_break(loc, cond)
    \/ \E n \in 0..MaxPriorityIgnore : do_ignore_breakpoint(1, n)

SpecPriority == Init /\ [][NextPriority]_vars

\* SpecHook, the process trace hook: the decorated function is called with
\* or without a trace function of the host installed, runs to its end by
\* return or by exception under the operator's resume commands or quit, and
\* the wrapper finishes
NextHook ==
    \/ Entry
    \/ HostLine
    \/ HostException
    \/ HostReturn
    \/ do_continue
    \/ do_step
    \/ do_next
    \/ do_finish
    \/ do_quit
    \/ actual_function_wrapper_finally

SpecHook == InitHook /\ [][NextHook]_vars

\* SpecNested, nested entries: the decorated function, stopped or running
\* under its session, calls itself or another decorated function; the
\* exploration follows the target into the nested calls
MaxNested == 1

NextNested ==
    \/ Entry
    \/ HostLine
    \/ do_continue
    \/ do_step
    \/ do_quit
    \/ Cardinality(Wrappers(stack)) <= MaxNested
         /\ \E callee \in DecoratedFrames : actual_function_wrapper(callee)

SpecNested == Init /\ [][NextNested]_vars

\* SpecKeyed, resuming from an inspected frame: the operator moves the
\* cursor with up and down and resumes with next, finish or until
NextKeyed ==
    \/ Entry
    \/ HostLine
    \/ HostReturn
    \/ do_next
    \/ do_finish
    \/ \E l \in BodyLines : do_rununtil([kind |-> "int", n |-> l])
    \/ \E arg \in MoveArgs : do_up_stack(arg)
    \/ \E arg \in MoveArgs : do_down_stack(arg)

SpecKeyed == Init /\ [][NextKeyed]_vars

\* SpecEvents, breakpoints on every kind of event: the decorated function
\* runs over its lines and returns, with a breakpoint on one of them, with
\* or without a condition and an ignore budget
MaxEventBp == 1
MaxEventHits == 2
MaxEventIgnore == 1

NextEvents ==
    \/ Entry
    \/ HostCall
    \/ HostLine /\ HitsWithin(MaxEventHits)
    \/ HostReturn /\ HitsWithin(MaxEventHits)
    \/ do_continue
    \/ do_step
    \/ CanAdd(MaxEventBp)
         /\ \E l \in BodyLines, cond \in BreakConds :
               do_break(Loc(NoFile, "int", l, <<>>), cond)
    \/ \E n \in 0..MaxEventIgnore : do_ignore_breakpoint(1, n)

SpecEvents == Init /\ [][NextEvents]_vars

----------------------------------------------------------------------------
(* Properties.  dispatch holds the last event handled since the last resume *)
(* command, so "after command c, at an event" is: last_resume.cmd = c and   *)
(* dispatch.event names an event; every event before it since c did not     *)
(* stop, or cmdloop would have run and a new command been needed.           *)

BreakpointStop == dispatch.stop_now /\ dispatch.reason = "BP"

\* C1: after `until L` issued while suspended in file F, a line event at
\* (F, L) stops, and no other event stops unless a breakpoint matched or the
\* event is an exception.
C1_UntilStopsExactlyAtTarget ==
    (last_resume.cmd = "until" /\ dispatch.event # "none") =>
        LET at_target == /\ dispatch.event = "line"
                         /\ dispatch.file = last_resume.file
                         /\ dispatch.lineno = last_resume.lineno
        IN  /\ at_target => dispatch.stop_now
            /\ (dispatch.stop_now /\ ~BreakpointStop
                  /\ dispatch.event # "exception") => at_target

\* C2: after `finish` issued at depth D, a line event at depth <= D-1 stops,
\* and no other event stops unless a breakpoint matched or the event is an
\* exception: no line at depth >= D, no call, no return.
C2_FinishStopsExactlyInCaller ==
    (last_resume.cmd = "finish" /\ dispatch.event # "none") =>
        LET in_caller == /\ dispatch.event = "line"
                         /\ dispatch.depth <= last_resume.depth - 1
        IN  /\ in_caller => dispatch.stop_now
            /\ (dispatch.stop_now /\ ~BreakpointStop
                  /\ dispatch.event # "exception") => in_caller

\* C3: after `next` issued at depth D, a line event at depth <= D stops, and
\* no other event (call, return, deeper line) stops unless a breakpoint
\* matched or the event is an exception.
C3_NextStopsExactlyAtDepth ==
    (last_resume.cmd = "next" /\ dispatch.event # "none") =>
        LET at_depth == /\ dispatch.event = "line"
                        /\ dispatch.depth <= last_resume.depth
        IN  /\ at_depth => dispatch.stop_now
            /\ (dispatch.stop_now /\ ~BreakpointStop
                  /\ dispatch.event # "exception") => at_depth

C5_IgnoreBudgetSkipsFirstN ==
    /\ \A id \in (DOMAIN ignore_set)
                   \cap (DOMAIN breakpoint_manager.breakpoints_by_id) :
          LET g == ignore_set[id]
              bp == breakpoint_manager.breakpoints_by_id[id]
          IN  g.n > 0 =>
                /\ bp.initial_ignore_count = g.n
                /\ bp.current_ignore_left =
                      IF g.seen < g.n THEN g.n - g.seen ELSE 0
    /\ (dispatch.budget > 0 /\ dispatch.nth >= 1) =>
          /\ dispatch.nth <= dispatch.budget =>
                ~dispatch.stop_now /\ ~dispatch.cond_evaluated
          /\ (dispatch.nth = dispatch.budget + 1
                /\ dispatch.bp_id \in DOMAIN breakpoint_manager.breakpoints_by_id) =>
                LET bp == breakpoint_manager.breakpoints_by_id[dispatch.bp_id]
                IN  IF bp.condition_str # NoCond
                    THEN dispatch.cond_evaluated
                    ELSE BreakpointStop

\* the third evaluation after `ignore id 2`: the condition is evaluated and stops
C5_StopsOnHitAfterBudget ==
    /\ dispatch.budget = 2
    /\ dispatch.nth = 3
    /\ dispatch.cond_evaluated
    /\ BreakpointStop
    /\ breakpoint_manager.breakpoints_by_id[dispatch.bp_id].hit_count = 3

\* C6: after clear at a location (F, L), the listing holds no breakpoint at
\* (F, L) and the location index has no entry for it, however many adds at
\* (F, L) came before.
C6_ClearAtLocationLeavesNone ==
    (last_cmd.name = "clear at" /\ last_cmd.raised = ""
       /\ last_cmd.file # NoFile) =>
        /\ <<last_cmd.file, last_cmd.lineno>>
              \notin DOMAIN breakpoint_manager.breakpoints_by_file
        /\ \A id \in list_breakpoints(breakpoint_manager) :
              LET bp == breakpoint_manager.breakpoints_by_id[id]
              IN  <<bp.file_abs, bp.lineno>> # <<last_cmd.file, last_cmd.lineno>>

\* C7: resolving a location never raises: break and clear with a symbolic
\* location whose file is missing or malformed, or that matches nothing, go
\* on with NotFound.
C7_ResolutionNeverRaises ==
    (last_cmd.name \in {"break", "clear at"}) =>
        /\ last_cmd.raised = ""
        /\ pc # "crashed"

\* C8: an exception event delivered to a session that has not quit stops, in
\* every stepping mode and whatever breakpoints exist.
C8_ExceptionAlwaysStops ==
    (dispatch.event = "exception" /\ dispatch.handler = "trace_dispatch"
       /\ ~quit_debugger) =>
        /\ dispatch.stop_now
        /\ dispatch.reason = "Exception"
        /\ pc = "prompt"

\* an exception stops a target that was running under continue, at a line
\* that holds a breakpoint
C8_ExceptionStopsWhileRunning ==
    /\ dispatch.event = "exception"
    /\ dispatch.stop_now
    /\ last_resume.cmd = "continue"
    /\ <<dispatch.file, dispatch.lineno>>
          \in DOMAIN breakpoint_manager.breakpoints_by_file

\* C9: once quit has been issued the flag is set and stays set, the session
\* is never at the prompt again, no event of the target stops or gets a
\* handle back from trace_dispatch, and the breakpoint, stepping and stack
\* state do not change.
C9_QuitIsTerminal ==
    [][ last_resume.cmd = "quit" =>
          /\ quit_debugger /\ quit_debugger'
          /\ last_resume'.cmd = "quit"
          /\ pc' # "prompt"
          /\ UNCHANGED session_vars
          /\ ~dispatch'.stop_now
          /\ dispatch'.handle # "trace_dispatch" ]_vars

\* after quit at a line stop, the target ran a line that holds a breakpoint
C9_EventAfterQuit ==
    /\ quit_debugger
    /\ last_resume.cmd = "quit"
    /\ dispatch.event = "line"
    /\ <<dispatch.file, dispatch.lineno>>
          \in DOMAIN breakpoint_manager.breakpoints_by_file
    /\ Top(stack).f_trace = "trace_dispatch"

\* C10: up N or down N whose target index falls outside the snapshot reports
\* the boundary and leaves the inspection index and frame as they were.
C10_OvershootLeavesCursor ==
    LET delta == IF last_cmd.name = "up" THEN last_cmd.arg ELSE -last_cmd.arg
        target == last_cmd.pre_idx + delta
    IN  (last_cmd.name \in {"up", "down"} /\ last_cmd.raised = ""
           /\ (target < 0 \/ target >= Len(full_stack_at_stop))) =>
            /\ interaction_stack_idx = last_cmd.pre_idx
            /\ interaction_frame = last_cmd.pre_frame
            /\ interaction_frame = full_stack_at_stop[interaction_stack_idx + 1]
            /\ output = IF last_cmd.name = "up" THEN "Cannot move further up."
                        ELSE "Cannot move further down."

\* `up 2` from the middle of a three-frame snapshot: clamping would have moved
C10_OvershootFromMiddle ==
    /\ last_cmd.name = "up"
    /\ last_cmd.arg = 2
    /\ last_cmd.pre_idx = 1
    /\ Len(full_stack_at_stop) = 3
    /\ interaction_stack_idx = 1
    /\ output = "Cannot move further up."

\* C11: a trace event handled by the session evaluates the breakpoint mapped
\* at the event's (file, line), unless the handler already stops for another
\* reason; each evaluation adds exactly one to that breakpoint's hit counter,
\* whether or not it stops (ignore budget left, condition false, condition
\* failing), and no other step and no other breakpoint's counter changes.
C11_EveryEvaluationCountsOnce ==
    [][ \A id \in (DOMAIN breakpoint_manager.breakpoints_by_id)
                    \cap (DOMAIN breakpoint_manager'.breakpoints_by_id) :
          LET key == <<dispatch'.file, dispatch'.lineno>>
              evaluated ==
                  /\ pc \in {"entry", "running"}
                  /\ dispatch'.handler = "trace_dispatch"
                  /\ dispatch'.bp_checked
                  /\ key \in DOMAIN breakpoint_manager.breakpoints_by_file
                  /\ breakpoint_manager.breakpoints_by_file[key] = id
          IN  breakpoint_manager'.breakpoints_by_id[id].hit_count =
                  breakpoint_manager.breakpoints_by_id[id].hit_count
                      + (IF evaluated THEN 1 ELSE 0) ]_vars

\* a breakpoint with a condition and no ignore budget stops on an evaluation
\* whose condition is true, and its counter reads 2
C11_SecondReachStops ==
    /\ BreakpointStop
    /\ dispatch.outcome = "true"
    /\ dispatch.bp_id \notin DOMAIN ignore_set
    /\ dispatch.bp_id \in DOMAIN breakpoint_manager.breakpoints_by_id
    /\ LET bp == breakpoint_manager.breakpoints_by_id[dispatch.bp_id]
       IN  /\ bp.condition_str # NoCond
           /\ bp.initial_ignore_count = 0
           /\ bp.hit_count = 2

\* C12: an event on which the evaluation of a breakpoint's condition fails
\* does not stop; the handler returns trace_dispatch to the host, the trace
\* function stays installed, and the stepping state is what it was but for
\* the must-stop flag, which every event leaves false.
C12_FailingConditionIsFalse ==
    [][ (pc \in {"entry", "running"} /\ dispatch'.outcome = "error") =>
          /\ ~dispatch'.stop_now
          /\ pc' \in {"running", "ended"}
          /\ dispatch'.handle = "trace_dispatch"
          /\ trace_func' = trace_func
          /\ ~quit_debugger'
          /\ (pc' = "running" /\ Len(stack') = Len(stack)) =>
                Top(stack').f_trace = "trace_dispatch"
          /\ state_manager' =
                [state_manager EXCEPT
                   !.request_stop_at_next_suitable_event = FALSE] ]_vars

\* the condition of the breakpoint at the line failed and the target runs on,
\* traced
C12_RanOnAfterFailure ==
    /\ dispatch.outcome = "error"
    /\ dispatch.event = "line"
    /\ dispatch.cond_evaluated
    /\ pc = "running"
    /\ Top(stack).f_trace = "trace_dispatch"
    /\ dispatch.bp_id \in DOMAIN breakpoint_manager.breakpoints_by_id
    /\ breakpoint_manager.breakpoints_by_id[dispatch.bp_id].hit_count = 1

\* C13: clear with an id or a location never raises; it returns true exactly
\* when it removed a breakpoint (one id leaves the registry) and otherwise
\* leaves both indexes as they were; clearing by id leaves every other id
\* listed and mapped at its location.  (Arguments: every id, and the
\* locations given by line number.)
C13_ClearReturnsWhetherRemoved ==
    [][ \A arg \in {a \in ClearArgs :
                       (a.kind = "int") \/ (a.loc.kind = "int"
                                               /\ a.kind = "loc")} :
          do_clear(arg) =>
            LET by_id == breakpoint_manager.breakpoints_by_id
                by_file == breakpoint_manager.breakpoints_by_file
                by_id_after == breakpoint_manager'.breakpoints_by_id
                by_file_after == breakpoint_manager'.breakpoints_by_file
            IN  /\ last_cmd'.raised = ""
                /\ pc' # "crashed"
                /\ IF last_cmd'.ret
                   THEN /\ DOMAIN by_id_after \subseteq DOMAIN by_id
                        /\ Cardinality(DOMAIN by_id \ DOMAIN by_id_after) = 1
                   ELSE by_id_after = by_id /\ by_file_after = by_file
                /\ arg.kind = "int" =>
                      \A id \in (DOMAIN by_id) \ {arg.n} :
                          /\ id \in DOMAIN by_id_after
                          /\ \A key \in DOMAIN by_file :
                                by_file[key] = id =>
                                  /\ key \in DOMAIN by_file_after
                                  /\ by_file_after[key] = id ]_vars

\* C14: every id in the registry is below next_bp_id, no step lowers
\* next_bp_id, and the only step that changes it is an add, which returns the
\* value it had and raises it by one: so each add returns an id greater than
\* every id returned before, whatever was cleared in between.
C14_IdsStrictlyIncrease ==
    [][ LET next_id == breakpoint_manager.next_bp_id
            next_id_after == breakpoint_manager'.next_bp_id
            by_id == breakpoint_manager.breakpoints_by_id
            by_id_after == breakpoint_manager'.breakpoints_by_id
        IN  /\ \A id \in DOMAIN by_id : id < next_id
            /\ next_id_after >= next_id
            /\ (DOMAIN by_id_after) \ (DOMAIN by_id) \subseteq {next_id}
            /\ next_id_after # next_id =>
                  /\ next_id_after = next_id + 1
                  /\ last_cmd'.name = "break"
                  /\ last_cmd'.ret
                  /\ last_cmd'.arg = next_id
                  /\ next_id \in DOMAIN by_id_after ]_vars

\* an add made after breakpoint 1 was cleared returned 2
C14_AddAfterClear ==
    /\ last_cmd.name = "break"
    /\ last_cmd.ret
    /\ last_cmd.arg = 2
    /\ DOMAIN breakpoint_manager.breakpoints_by_id = {2}
    /\ DOMAIN breakpoint_manager.breakpoints_by_file # {}

C16_StepStopsAtVeryNextEvent ==
    [][(/\ last_resume.cmd = "step"
        /\ dispatch = NoDispatch
        /\ dispatch'.event \in {"call", "line"})
       => (dispatch'.stop_now /\ pc' = "prompt")]_vars

\* C17: a stop on account of the run-until target happens only at a line
\* event on the target of the `until` that resumed last, and it clears the
\* target; every resume command other than `until` leaves no target and
\* `until` leaves only its own; while there is no target no event stops on
\* account of one.
C17_UntilTargetFiresOnce ==
    /\ [](dispatch.reason = "Until" =>
             (/\ dispatch.event = "line"
              /\ dispatch.stop_now
              /\ last_resume.cmd = "until"
              /\ <<dispatch.file, dispatch.lineno>>
                    = <<last_resume.file, last_resume.lineno>>
              /\ state_manager.run_until_line_info = NoneInfo))
    /\ [](last_resume.cmd \in {"continue", "step", "next", "finish"} =>
             (/\ state_manager.run_until_line_info = NoneInfo
              /\ dispatch.reason # "Until"))
    /\ [](last_resume.cmd = "until" =>
             state_manager.run_until_line_info
                 \in {NoneInfo, <<last_resume.file, last_resume.lineno>>})
    /\ [][(state_manager.run_until_line_info = NoneInfo
            /\ dispatch' # dispatch)
           => dispatch'.reason # "Until"]_vars

\* the target of `until` fired at its line and is no longer set
C17_TargetFiredAndCleared ==
    /\ dispatch.reason = "Until"
    /\ pc = "prompt"
    /\ last_resume.cmd = "until"
    /\ <<dispatch.file, dispatch.lineno>>
          = <<last_resume.file, last_resume.lineno>>
    /\ state_manager.run_until_line_info = NoneInfo

\* C18: an event that stops leaves a snapshot that starts with the halted
\* frame, continues with each frame's caller and ends with the root, and
\* leaves the inspection cursor on index 0, the halted frame, wherever the
\* cursor stood before.
C18_StopSnapshotsCallerChain ==
    [][(dispatch' # dispatch /\ dispatch'.stop_now) =>
        /\ pc' = "prompt"
        /\ execution_frame' = Len(stack')
        /\ full_stack_at_stop' # <<>>
        /\ full_stack_at_stop'[1] = execution_frame'
        /\ \A i \in 1..(Len(full_stack_at_stop') - 1) :
              full_stack_at_stop'[i + 1] = f_back(full_stack_at_stop'[i])
        /\ f_back(full_stack_at_stop'[Len(full_stack_at_stop')]) = NoFrame
        /\ Len(full_stack_at_stop') = dispatch'.depth
        /\ interaction_stack_idx' = 0
        /\ interaction_frame' = execution_frame']_vars

\* the operator had moved the cursor to the root before resuming, and the
\* next stop put it back on the halted frame
C18_CursorResetAfterMove ==
    /\ pc = "prompt"
    /\ dispatch.stop_now
    /\ last_cmd = NoCmd
    /\ last_resume.idx = 2
    /\ interaction_stack_idx = 0
    /\ interaction_frame = execution_frame
    /\ full_stack_at_stop = <<3, 2, 1>>

\* C19: the watch list never holds an expression twice; `watch` of an
\* expression already in the list leaves the list as it was; and a command
\* keeps the expressions that stay in the order they had, a new one going to
\* the end.
C19_WatchListIsOrderedSet ==
    /\ [](\A i, j \in 1..Len(watched_expressions) :
            watched_expressions[i] = watched_expressions[j] => i = j)
    /\ [][(last_cmd'.name = "watch"
             /\ Contains(watched_expressions, last_cmd'.expr))
          => watched_expressions' = watched_expressions]_vars
    /\ [][\A i, j \in 1..Len(watched_expressions') :
            i < j =>
              \/ ~Contains(watched_expressions, watched_expressions'[j])
                   /\ j = Len(watched_expressions')
              \/ /\ Contains(watched_expressions, watched_expressions'[i])
                 /\ Contains(watched_expressions, watched_expressions'[j])
                 /\ IndexOf(watched_expressions, watched_expressions'[i])
                      < IndexOf(watched_expressions,
                                watched_expressions'[j])]_vars

\* `watch` of the first of two watched expressions was reported as already
\* watched
C19_WatchedTwice ==
    /\ last_cmd.name = "watch"
    /\ output = "Already watching"
    /\ Len(watched_expressions) = 2
    /\ watched_expressions[1] = last_cmd.expr

\* C20: `unwatch` of the text of a watched expression removes that
\* expression and no other; otherwise `unwatch` of a valid index removes the
\* entry at that index; any other argument leaves the list as it was.
C20_UnwatchRemovesWhatItNames ==
    [][(pc = "prompt" /\ last_cmd'.name = "unwatch") =>
        LET arg == last_cmd'.expr
            idx == int(arg)
        IN  IF Contains(watched_expressions, arg)
            THEN /\ ~Contains(watched_expressions', arg)
                 /\ Len(watched_expressions')
                      = Len(watched_expressions) - 1
                 /\ \A x \in WatchArgs :
                      (x # arg /\ Contains(watched_expressions, x))
                          => Contains(watched_expressions', x)
            ELSE IF idx.raised = "" /\ 0 <= idx.value
                      /\ idx.value < Len(watched_expressions)
            THEN watched_expressions'
                     = list_pop(watched_expressions, idx.value)
            ELSE watched_expressions' = watched_expressions]_vars

RECURSIVE Declarations(_, _)
\* the def and class statements of a statement list, each with the names of
\* the declarations around it followed by its own
Declarations(nodes, path) ==
    IF nodes = <<>> THEN {}
    ELSE LET node == Head(nodes)
             current_path == Append(path, node.name)
         IN  {[path |-> current_path, kind |-> node.kind,
               lineno |-> node.lineno]}
                 \cup Declarations(node.body, current_path)
                 \cup Declarations(Tail(nodes), path)

\* C21: `break` at a dotted name resolves to a line only if a function is
\* declared at that line with exactly the dotted path as its nesting path,
\* and it does resolve whenever the file declares such a function.
C21_DottedPathMatchesExactly ==
    (last_cmd.name = "break" /\ last_cmd.loc.kind = "name"
        /\ last_cmd.raised = "") =>
        LET file_abs == abspath(IF last_cmd.loc.file_part # NoFile
                                THEN last_cmd.loc.file_part ELSE "a.py")
            funcs == {d \in Declarations(Outline(file_abs), <<>>) :
                        d.kind = "FunctionDef"
                            /\ d.path = last_cmd.loc.name}
        IN  /\ last_cmd.lineno # NoLine =>
                  /\ \E d \in funcs : d.lineno = last_cmd.lineno
                  /\ last_cmd.file = file_abs
                  /\ last_cmd.ret
            /\ funcs # {} => last_cmd.lineno # NoLine

\* `break A.b` resolved to the line of the b declared in class A although the
\* file declares a top-level b before it
C21_NestedNotTopLevel ==
    /\ last_cmd.name = "break"
    /\ last_cmd.loc.name = <<"A", "b">>
    /\ last_cmd.lineno = 6
    /\ \E d \in Declarations(Outline("/w/a.py"), <<>>) :
          d.path = <<"b">> /\ d.lineno # 6
    /\ <<"/w/a.py", 6>> \in DOMAIN breakpoint_manager.breakpoints_by_file

\* C22: from a stop, execution goes on only by an accepted resume command or
\* quit; any other input leaves the target suspended at the prompt with the
\* stepping state it had.
C22_OnlyResumeLeavesThePrompt ==
    [][pc = "prompt" =>
        \/ /\ pc' # "prompt"
           /\ last_resume'.cmd \in {"next", "step", "continue", "finish",
                                    "until", "quit"}
           /\ last_cmd' = NoCmd
           /\ dispatch' = NoDispatch
        \/ /\ pc' = "prompt"
           /\ state_manager' = state_manager
           /\ stack' = stack
           /\ dispatch' = dispatch]_vars

\* C23: the must-stop flag is true when the session starts, false once the
\* first event has been dispatched to the session, and no step of the
\* session sets it again.
C23_MustStopFlagOnlyAtEntry ==
    [][/\ pc = "entry" => state_manager.request_stop_at_next_suitable_event
       /\ dispatch'.handler = "trace_dispatch"
            => ~state_manager'.request_stop_at_next_suitable_event
       /\ ~state_manager.request_stop_at_next_suitable_event
            => ~state_manager'.request_stop_at_next_suitable_event]_vars

\* C24: the two breakpoint indices agree: every breakpoint of the id index
\* is the one mapped at its own (file, line), and every location maps to a
\* breakpoint of the id index that lies at that location.
C24_IndicesAgree ==
    LET by_id == breakpoint_manager.breakpoints_by_id
        by_file == breakpoint_manager.breakpoints_by_file
    IN  /\ \A id \in DOMAIN by_id :
              /\ <<by_id[id].file_abs, by_id[id].lineno>> \in DOMAIN by_file
              /\ by_file[<<by_id[id].file_abs, by_id[id].lineno>>] = id
        /\ \A key \in DOMAIN by_file :
              /\ by_file[key] \in DOMAIN by_id
              /\ <<by_id[by_file[key]].file_abs, by_id[by_file[key]].lineno>>
                    = key

\* C25: when the stepping state alone decides that an event stops (pending
\* must-stop flag, until match, step-into, step-over or step-out depth match,
\* exception), no breakpoint is evaluated on that event: hit counters and
\* ignore budgets stay as they were.
C25_DecidedStopSkipsBreakpoints ==
    [][(/\ dispatch' # dispatch
        /\ dispatch'.handler = "trace_dispatch"
        /\ stop_decision(state_manager, dispatch'.event, dispatch'.depth,
                         dispatch'.file, dispatch'.lineno).stop_now)
       => /\ breakpoint_manager' = breakpoint_manager
          /\ ~dispatch'.bp_checked
          /\ dispatch'.stop_now
          /\ dispatch'.reason # "BP"]_vars

\* a step stopped on the line of a breakpoint that still has an ignore
\* budget and has never been evaluated
C25_SteppedOntoBreakpoint ==
    /\ pc = "prompt"
    /\ dispatch.event = "line"
    /\ dispatch.reason \in {"Step", "Next"}
    /\ <<dispatch.file, dispatch.lineno>>
          \in DOMAIN breakpoint_manager.breakpoints_by_file
    /\ 1 \in DOMAIN breakpoint_manager.breakpoints_by_id
    /\ breakpoint_manager.breakpoints_by_id[1].current_ignore_left = 1
    /\ breakpoint_manager.breakpoints_by_id[1].hit_count = 0

\* C27: when the wrapper of the decorated function finishes, the trace hook
\* of the process is the one that was active before the call.
C27_HookRestoredAtExit ==
    [][(pc = "ended" /\ pc' = "returned")
       => trace_func' = Top(stack).original_trace_func]_vars

\* C26: a decorated function called from a frame that a live session traces
\* runs under that session: its wrapper finds the session already tracing,
\* and there is no initial-entry stop in the nested call.
C26_NestedCallReusesSession ==
    /\ \A i \in Wrappers(stack) :
          (i > Len(OuterFrames)
              /\ stack[i].original_trace_func # "None"
              /\ stack[i - 1].f_trace = "trace_dispatch")
          => stack[i].is_already_tracing_with_our_debugger
    /\ (dispatch.event = "call" /\ dispatch.reason = "Initial entry")
          => dispatch.depth = Len(OuterFrames) + 1

\* C28: at most one of the three step flags is set; none is set while there
\* is a run-until target; and all three are clear whenever the operator is
\* prompted.
C28_StepFlagsExclusive ==
    LET flags == {state_manager.step_into, state_manager.step_over,
                  state_manager.step_out}
        set == (IF state_manager.step_into THEN 1 ELSE 0)
                 + (IF state_manager.step_over THEN 1 ELSE 0)
                 + (IF state_manager.step_out THEN 1 ELSE 0)
    IN  /\ set <= 1
        /\ state_manager.run_until_line_info # NoneInfo => set = 0
        /\ pc = "prompt" => flags = {FALSE}

\* C29: whenever the operator is prompted the inspection index lies inside
\* the snapshot, the inspected frame is the snapshot's entry at that index
\* and the execution frame is its entry 0; up and down, moving or refusing,
\* leave the snapshot and the execution frame as they were.
C29_CursorInsideSnapshot ==
    /\ [](pc = "prompt" =>
            (/\ 0 <= interaction_stack_idx
             /\ interaction_stack_idx < Len(full_stack_at_stop)
             /\ interaction_frame
                  = full_stack_at_stop[interaction_stack_idx + 1]
             /\ execution_frame = full_stack_at_stop[1]))
    /\ [][(pc = "prompt" /\ last_cmd'.name \in {"up", "down"}) =>
            (/\ full_stack_at_stop' = full_stack_at_stop
             /\ execution_frame' = execution_frame
             /\ pc' = "prompt")]_vars

\* `down` moved the cursor from the root's frame to the wrapper's
C29_MovedDownFromRoot ==
    /\ pc = "prompt"
    /\ last_cmd.name = "down"
    /\ last_cmd.pre_idx = 2
    /\ interaction_stack_idx = 1
    /\ interaction_frame = full_stack_at_stop[2]
    /\ interaction_frame # execution_frame
    /\ execution_frame = full_stack_at_stop[1]

\* C30: right after `next`, `finish` or `until` the target depth, or the
\* target file, is that of the frame the target halted in (its caller's
\* depth for `finish`), wherever up and down had put the inspection cursor.
C30_ResumeKeyedOffExecutionFrame ==
    dispatch = NoDispatch =>
        /\ last_resume.cmd = "next" =>
              /\ state_manager.step_over
              /\ state_manager.step_over_target_depth = last_resume.depth
        /\ last_resume.cmd = "finish" =>
              /\ state_manager.step_out
              /\ state_manager.step_out_target_depth = last_resume.depth - 1
        /\ last_resume.cmd = "until" =>
              state_manager.run_until_line_info
                  = <<last_resume.file, last_resume.lineno>>

\* `finish` was given with the cursor on the root's frame and targets the
\* caller of the halted frame
C30_FinishFromRootCursor ==
    /\ dispatch = NoDispatch
    /\ last_resume.cmd = "finish"
    /\ last_resume.idx = 2
    /\ last_resume.depth = 3
    /\ state_manager.step_out_target_depth = 2

\* C31: on every call, line or return event that the session handles and
\* that the stepping state does not already stop, the breakpoint mapped at
\* the frame's (file, line) is evaluated: its hit counter goes up by one, an
\* ignore budget left is consumed, and otherwise it stops unless it has a
\* condition that is not true.
C31_EvaluatedOnEveryKindOfEvent ==
    [][LET key == <<dispatch'.file, dispatch'.lineno>>
           by_file == breakpoint_manager.breakpoints_by_file
       IN  (/\ pc \in {"entry", "running"}
            /\ dispatch'.handler = "trace_dispatch"
            /\ dispatch'.event \in {"call", "line", "return"}
            /\ ~stop_decision(state_manager, dispatch'.event,
                              dispatch'.depth, dispatch'.file,
                              dispatch'.lineno).stop_now
            /\ key \in DOMAIN by_file)
           => LET id == by_file[key]
                  bp == breakpoint_manager.breakpoints_by_id[id]
                  after == breakpoint_manager'.breakpoints_by_id[id]
              IN  /\ dispatch'.bp_checked
                  /\ dispatch'.bp_id = id
                  /\ after.hit_count = bp.hit_count + 1
                  /\ after.current_ignore_left
                       = (IF bp.current_ignore_left > 0
                          THEN bp.current_ignore_left - 1 ELSE 0)
                  /\ dispatch'.stop_now
                       = (/\ bp.current_ignore_left = 0
                          /\ (bp.condition_str = NoCond
                                \/ dispatch'.outcome = "true"))]_vars

\* the return event of the decorated function stopped at the breakpoint of
\* the line it returns from, the second evaluation of that breakpoint
C31_StoppedAgainOnReturn ==
    /\ pc = "prompt"
    /\ dispatch.event = "return"
    /\ dispatch.stop_now
    /\ dispatch.reason = "BP"
    /\ dispatch.bp_id \in DOMAIN breakpoint_manager.breakpoints_by_id
    /\ LET bp == breakpoint_manager.breakpoints_by_id[dispatch.bp_id]
       IN  /\ bp.lineno = dispatch.lineno
           /\ bp.hit_count = 2
           /\ bp.initial_ignore_count = 0

====
